---- MODULE Spec2Model ----
(***************************************************************************)
(* Model of mapper/transaction.go of avalanche-rosetta: the mapping of an  *)
(* EVM transaction (fee, flattened call trace, receipt logs) and of an     *)
(* atomic import/export transaction to Rosetta operations.                 *)
(*                                                                         *)
(* Addresses are natural numbers below AddrSpace (0 is the zero address);  *)
(* a log topic is a natural number whose low part (modulo AddrSpace) is    *)
(* the address common.BytesToAddress extracts from it.  An operation is a  *)
(* record; an absent Amount (nil) is the empty sequence, a present one a   *)
(* one-element sequence.  Operation metadata of trace and token operations *)
(* is not modelled.                                                        *)
(***************************************************************************)
EXTENDS Integers, Sequences, FiniteSets, TLC

\* ------------------------------------------------------------ bounds
\* longest flattened trace of the enumerated traces
MaxTrace == 3
\* most receipt logs of the enumerated log lists
MaxLogs == 2
\* number of addresses a topic's low part distinguishes
AddrSpace == 4
\* most inputs and most outputs of the enumerated atomic transactions
MaxIO == 2
\* most atomic transactions of the enumerated blocks
MaxAtomic == 2
\* width in bits of the model's unsigned amounts, which stands for the 64
\* bits of uint64
WordBits == 4

\* ------------------------------------------------------------ constants
topicsInErc721Transfer == 4
topicsInErc20Transfer == 3
\* the transfer signature, as a topic value
transferMethodHash == 7
zeroAddress == 0
X2crate == 1000000000

OpFee == "FEE"
OpCall == "CALL"
OpCallCode == "CALLCODE"
OpDelegateCall == "DELEGATECALL"
OpStaticCall == "STATICCALL"
OpCreate == "CREATE"
OpCreate2 == "CREATE2"
OpSelfDestruct == "SELFDESTRUCT"
OpDestruct == "DESTRUCT"
OpImport == "IMPORT"
OpExport == "EXPORT"
OpErc20Transfer == "ERC20_TRANSFER"
OpErc20Mint == "ERC20_MINT"
OpErc20Burn == "ERC20_BURN"
OpErc721TransferSender == "ERC721_SENDER"
OpErc721TransferReceive == "ERC721_RECEIVE"
OpErc721Mint == "ERC721_MINT"
OpErc721Burn == "ERC721_BURN"
StatusSuccess == "SUCCESS"
StatusFailure == "FAILURE"
UnknownERC20Symbol == "ERC20_UNKNOWN"
UnknownERC721Symbol == "ERC721_UNKNOWN"

AvaxCurrency == "AVAX"
AtomicAvaxCurrency == "nAVAX"
CoinCreated == "coin_created"

\* CallType(t): t is one of the value-transfer call kinds.
CallType(t) == t \in {OpCall, OpCallCode, OpDelegateCall, OpStaticCall}

\* CreateType(t): t is one of the create kinds.
CreateType(t) == t \in {OpCreate, OpCreate2}

\* ------------------------------------------------------------ helpers
Last(s) == s[Len(s)]

\* an operation record; amount and related are sequences (empty = absent)
Op(index, type, status, account, amount, related) ==
  [index |-> index, type |-> type, status |-> status, account |-> account,
   amount |-> amount, related |-> related]

\* AvaxAmount(v): an Amount of v in the native currency
AvaxAmount(v) == <<[value |-> v, currency |-> AvaxCurrency]>>

\* the destroyed-accounts map: a function from the destroyed addresses
EmptyMap == [a \in {} |-> 0]
MapPut(m, k, v) == [a \in DOMAIN m \cup {k} |-> IF a = k THEN v ELSE m[a]]
MapDelete(m, k) == [a \in DOMAIN m \ {k} |-> m[a]]

\* ------------------------------------------------------------ traceOps
\* one flattened call (clientTypes.FlatCall)
FlatCall(type, from, to, value, revert) ==
  [Type |-> type, From |-> from, To |-> to, Value |-> value, Revert |-> revert]

\* opStatus of a call
OpStatus(call) == IF call.Revert THEN StatusFailure ELSE StatusSuccess

\* ShouldAdd skipping every zero-value call
ShouldAdd_SkipAllZero(call) == call.Value # 0

\* shouldAdd: zero-value CallType calls emit nothing
ShouldAdd(call) == ~(call.Value = 0 /\ CallType(call.Type))

\* call.To.String() is the 0x-prefixed hex of a 20-byte address: never empty
ToIsEmpty(call) == FALSE

\* FromOp without the start index
FromOp_NoStart(call, ops, startIndex) ==
  [index |-> Len(ops), type |-> call.Type,
   status |-> IF call.Revert THEN StatusFailure ELSE StatusSuccess,
   account |-> call.From,
   amount |-> IF call.Value = 0 THEN <<>> ELSE AvaxAmount(-call.Value),
   related |-> <<>>]

\* the debit operation of a call, at index len(ops) + startIndex
FromOp(call, ops, startIndex) ==
  Op(Len(ops) + startIndex, call.Type, OpStatus(call), call.From,
     IF call.Value = 0 THEN <<>> ELSE AvaxAmount(-call.Value), <<>>)

\* the ledger after the debit of a call
DebitLedger(call, d) ==
  IF ShouldAdd(call) /\ call.Value # 0 /\ call.From \in DOMAIN d
     /\ OpStatus(call) = StatusSuccess
  THEN [d EXCEPT ![call.From] = @ - call.Value]
  ELSE d

\* DestructLedger keeping the entry of an account destroyed before
DestructLedger_KeepExisting(call, d) ==
  IF call.Type = OpSelfDestruct /\ call.From \notin DOMAIN d
  THEN MapPut(d, call.From, 0)
  ELSE d

\* the ledger after the SELFDESTRUCT handling of a call
DestructLedger(call, d) ==
  IF call.Type = OpSelfDestruct THEN MapPut(d, call.From, 0) ELSE d

\* CreateLedger removing the entry of the creator
CreateLedger_DeletesFrom(call, d) ==
  IF CreateType(call.Type) THEN MapDelete(d, call.From) ELSE d

\* the ledger after the resurrection handling of a call
CreateLedger(call, d) ==
  IF CreateType(call.Type) THEN MapDelete(d, call.To) ELSE d

\* ToOp relating the credit to its own index
ToOp_SelfRelated(call, ops) ==
  [index |-> Last(ops).index + 1, type |-> call.Type,
   status |-> IF call.Revert THEN StatusFailure ELSE StatusSuccess,
   account |-> call.To,
   amount |-> IF call.Value = 0 THEN <<>> ELSE AvaxAmount(call.Value),
   related |-> <<Last(ops).index + 1>>]

\* the credit operation of a call, after the operations ops
ToOp(call, ops) ==
  Op(Last(ops).index + 1, call.Type, OpStatus(call), call.To,
     IF call.Value = 0 THEN <<>> ELSE AvaxAmount(call.Value),
     <<Last(ops).index>>)

\* CreditLedger counting reverted calls too
CreditLedger_CountReverted(call, d) ==
  IF call.Value # 0 /\ call.To \in DOMAIN d /\ ~(call.Value = 0 /\ CallType(call.Type))
  THEN [d EXCEPT ![call.To] = @ + call.Value]
  ELSE d

\* the ledger after the credit of a call
CreditLedger(call, d) ==
  IF ShouldAdd(call) /\ call.Value # 0 /\ call.To \in DOMAIN d
     /\ OpStatus(call) = StatusSuccess
  THEN [d EXCEPT ![call.To] = @ + call.Value]
  ELSE d

\* one iteration of the loop over the trace: the operations and the ledger
\* after the call
CallStep(call, ops, d, startIndex) ==
  LET ops1 == IF ShouldAdd(call) THEN Append(ops, FromOp(call, ops, startIndex))
              ELSE ops
      d1 == DebitLedger(call, d)
      d2 == DestructLedger(call, d1)
  IN IF (call.Type = OpSelfDestruct /\ call.From = call.To) \/ ToIsEmpty(call)
     THEN [ops |-> ops1, d |-> d2]
     ELSE LET d3 == CreateLedger(call, d2)
          IN [ops |-> IF ShouldAdd(call) THEN Append(ops1, ToOp(call, ops1))
                      ELSE ops1,
              d |-> CreditLedger(call, d3)]

\* Sign taking a negative value for a positive one
Sign_Magnitude(v) == IF v = 0 THEN 0 ELSE 1

\* big.Int.Sign
Sign(v) == IF v < 0 THEN -1 ELSE IF v = 0 THEN 0 ELSE 1

\* the account-destruction operation of a ledger entry, after the operations ops
DestructOp(acct, val, ops) ==
  Op(Last(ops).index + 1, OpDestruct, StatusSuccess, acct, AvaxAmount(-val), <<>>)

\* ------------------------------------------------------------ token operations
\* one receipt log (ethtypes.Log): emitting contract, topics, data
Log(address, topics, data) == [Address |-> address, Topics |-> topics, Data |-> data]

\* common.BytesToAddress of a topic: its low 20 bytes
BytesToAddress(topic) == topic % AddrSpace

\* ToCurrency(symbol, decimals, address)
ToCurrency(symbol, decimals, address) ==
  [symbol |-> symbol, decimals |-> decimals, contract |-> address]

\* Erc20Amount(data, currency, negate): the amount of the log's data, negated
\* for the sending side
Erc20Amount(data, currency, negate) ==
  <<[value |-> IF negate THEN -data ELSE data, currency |-> currency]>>

\* erc20Ops testing for a burn before a mint
erc20Ops_BurnFirst(transferLog, currency, opsLen) ==
  LET fromAddress == BytesToAddress(transferLog.Topics[2])
      toAddress == BytesToAddress(transferLog.Topics[3])
  IN IF toAddress = zeroAddress
     THEN <<Op(opsLen, OpErc20Burn, StatusSuccess, fromAddress,
               Erc20Amount(transferLog.Data, currency, TRUE), <<>>)>>
     ELSE IF fromAddress = zeroAddress
     THEN <<Op(opsLen, OpErc20Mint, StatusSuccess, toAddress,
               Erc20Amount(transferLog.Data, currency, FALSE), <<>>)>>
     ELSE <<Op(opsLen, OpErc20Transfer, StatusSuccess, fromAddress,
               Erc20Amount(transferLog.Data, currency, TRUE), <<>>),
            Op(opsLen + 1, OpErc20Transfer, StatusSuccess, toAddress,
               Erc20Amount(transferLog.Data, currency, FALSE), <<opsLen>>)>>

erc20Ops(transferLog, currency, opsLen) ==
  LET fromAddress == BytesToAddress(transferLog.Topics[2])
      toAddress == BytesToAddress(transferLog.Topics[3])
  IN IF fromAddress = zeroAddress
     THEN <<Op(opsLen, OpErc20Mint, StatusSuccess, toAddress,
               Erc20Amount(transferLog.Data, currency, FALSE), <<>>)>>
     ELSE IF toAddress = zeroAddress
     THEN <<Op(opsLen, OpErc20Burn, StatusSuccess, fromAddress,
               Erc20Amount(transferLog.Data, currency, TRUE), <<>>)>>
     ELSE <<Op(opsLen, OpErc20Transfer, StatusSuccess, fromAddress,
               Erc20Amount(transferLog.Data, currency, TRUE), <<>>),
            Op(opsLen + 1, OpErc20Transfer, StatusSuccess, toAddress,
               Erc20Amount(transferLog.Data, currency, FALSE), <<opsLen>>)>>

erc721Ops(transferLog, opsLen) ==
  LET fromAddress == BytesToAddress(transferLog.Topics[2])
      toAddress == BytesToAddress(transferLog.Topics[3])
  IN IF fromAddress = zeroAddress
     THEN <<Op(opsLen, OpErc721Mint, StatusSuccess, toAddress, <<>>, <<>>)>>
     ELSE IF toAddress = zeroAddress
     THEN <<Op(opsLen, OpErc721Burn, StatusSuccess, fromAddress, <<>>, <<>>)>>
     ELSE <<Op(opsLen, OpErc721TransferSender, StatusSuccess, fromAddress,
               <<>>, <<>>),
            Op(opsLen + 1, OpErc721TransferReceive, StatusSuccess, toAddress,
               <<>>, <<opsLen>>)>>

\* an address string: the address and the casing of its hex digits
AddrString(a, casing) == [addr |-> a, casing |-> casing]

\* log.Address.String(): the checksum-cased hex of the address
String(a) == AddrString(a, "checksum")

\* EqualFoldContains(list, s): some element of list equals s ignoring case
EqualFoldContains(list, s) == \E k \in 1..Len(list) : list[k].addr = s.addr

\* the results of client.GetContractInfo: an error, or a symbol with decimals
ClientResults ==
  {[err |-> TRUE, symbol |-> "", decimals |-> 0]} \cup
  {[err |-> FALSE, symbol |-> s, decimals |-> 18] :
     s \in {"TOK", UnknownERC20Symbol, UnknownERC721Symbol}}

\* LogStep going on to the next log when the lookup fails
LogStep_SwallowLookupError(log, ops, info, analytics, whiteList, includeUnknown) ==
  LET skip == [ops |-> ops, looked |-> FALSE, err |-> FALSE]
  IN IF Len(log.Topics) = 0 \/ log.Topics[1] # transferMethodHash THEN skip
     ELSE IF ~analytics /\ ~EqualFoldContains(whiteList, String(log.Address))
     THEN skip
     ELSE IF Len(log.Topics) = topicsInErc721Transfer
     THEN IF info.err THEN [ops |-> ops, looked |-> TRUE, err |-> FALSE]
          ELSE IF info.symbol = UnknownERC721Symbol /\ ~includeUnknown
          THEN [ops |-> ops, looked |-> TRUE, err |-> FALSE]
          ELSE [ops |-> ops \o erc721Ops(log, Len(ops)),
                looked |-> TRUE, err |-> FALSE]
     ELSE IF Len(log.Topics) = topicsInErc20Transfer
     THEN IF info.err THEN [ops |-> ops, looked |-> TRUE, err |-> FALSE]
          ELSE IF info.symbol = UnknownERC20Symbol /\ ~includeUnknown
          THEN [ops |-> ops, looked |-> TRUE, err |-> FALSE]
          ELSE [ops |-> ops \o erc20Ops(log,
                          ToCurrency(info.symbol, info.decimals, log.Address),
                          Len(ops)),
                looked |-> TRUE, err |-> FALSE]
     ELSE skip

\* LogStep translating the logs of every contract
LogStep_NoAllowList(log, ops, info, analytics, whiteList, includeUnknown) ==
  LET skip == [ops |-> ops, looked |-> FALSE, err |-> FALSE]
  IN IF Len(log.Topics) = 0 \/ log.Topics[1] # transferMethodHash THEN skip
     ELSE IF Len(log.Topics) = topicsInErc721Transfer
     THEN IF info.err THEN [ops |-> ops, looked |-> TRUE, err |-> TRUE]
          ELSE IF info.symbol = UnknownERC721Symbol /\ ~includeUnknown
          THEN [ops |-> ops, looked |-> TRUE, err |-> FALSE]
          ELSE [ops |-> ops \o erc721Ops(log, Len(ops)),
                looked |-> TRUE, err |-> FALSE]
     ELSE IF Len(log.Topics) = topicsInErc20Transfer
     THEN IF info.err THEN [ops |-> ops, looked |-> TRUE, err |-> TRUE]
          ELSE IF info.symbol = UnknownERC20Symbol /\ ~includeUnknown
          THEN [ops |-> ops, looked |-> TRUE, err |-> FALSE]
          ELSE [ops |-> ops \o erc20Ops(log,
                          ToCurrency(info.symbol, info.decimals, log.Address),
                          Len(ops)),
                looked |-> TRUE, err |-> FALSE]
     ELSE skip

\* one iteration of the loop over the receipt logs, info being what
\* GetContractInfo returns if it is called: the operations after the log,
\* whether the lookup was made and whether Transaction returns its error
LogStep(log, ops, info, analytics, whiteList, includeUnknown) ==
  LET skip == [ops |-> ops, looked |-> FALSE, err |-> FALSE]
  IN IF Len(log.Topics) = 0 \/ log.Topics[1] # transferMethodHash THEN skip
     ELSE IF ~analytics /\ ~EqualFoldContains(whiteList, String(log.Address))
     THEN skip
     ELSE IF Len(log.Topics) = topicsInErc721Transfer
     THEN IF info.err THEN [ops |-> ops, looked |-> TRUE, err |-> TRUE]
          ELSE IF info.symbol = UnknownERC721Symbol /\ ~includeUnknown
          THEN [ops |-> ops, looked |-> TRUE, err |-> FALSE]
          ELSE [ops |-> ops \o erc721Ops(log, Len(ops)),
                looked |-> TRUE, err |-> FALSE]
     ELSE IF Len(log.Topics) = topicsInErc20Transfer
     THEN IF info.err THEN [ops |-> ops, looked |-> TRUE, err |-> TRUE]
          ELSE IF info.symbol = UnknownERC20Symbol /\ ~includeUnknown
          THEN [ops |-> ops, looked |-> TRUE, err |-> FALSE]
          ELSE [ops |-> ops \o erc20Ops(log,
                          ToCurrency(info.symbol, info.decimals, log.Address),
                          Len(ops)),
                looked |-> TRUE, err |-> FALSE]
     ELSE skip

\* FeeOps debiting the fee recipient and crediting the sender
FeeOps_ReceiverPays(sender, feeReceiver, gasUsed, gasPrice) ==
  LET txFee == gasUsed * gasPrice
  IN <<Op(0, OpFee, StatusSuccess, feeReceiver, AvaxAmount(-txFee), <<>>),
       Op(1, OpFee, StatusSuccess, sender, AvaxAmount(txFee), <<0>>)>>

\* the two fee operations of a transaction
FeeOps(sender, feeReceiver, gasUsed, gasPrice) ==
  LET txFee == gasUsed * gasPrice
  IN <<Op(0, OpFee, StatusSuccess, sender, AvaxAmount(-txFee), <<>>),
       Op(1, OpFee, StatusSuccess, feeReceiver, AvaxAmount(txFee), <<0>>)>>

\* ------------------------------------------------------------ atomic transactions
\* int64(v) of a uint64 v: the two's complement reading of its bits
Int64(v) == IF v >= 2 ^ (WordBits - 1) THEN v - 2 ^ WordBits ELSE v

\* an operation of an atomic transaction
AtomicOp(index, account, amount, metadata, coinChange) ==
  [index |-> index, type |-> IF metadata.kind = "import" THEN OpImport ELSE OpExport,
   status |-> StatusSuccess, account |-> account, amount |-> amount,
   metadata |-> metadata, coinChange |-> coinChange]

\* AtomicAvaxAmount(v)
AtomicAvaxAmount(v) == [value |-> v, currency |-> AtomicAvaxCurrency]

\* avax.UTXOID.String() of (txID, outputIndex)
UTXOIDString(txID, outputIndex) == <<txID, outputIndex>>

\* the loop of createExportedOuts over the exported outputs from the k-th on
RECURSIVE ExportedOutsLoop(_, _, _, _)
ExportedOutsLoop(txID, exportedOuts, k, acc) ==
  IF k > Len(exportedOuts) THEN acc
  ELSE LET out == exportedOuts[k]
           addr == IF Len(out.Addrs) > 0 THEN <<out.Addrs[1]>> ELSE <<>>
           op == [index |-> <<>>, type |-> OpExport, status |-> StatusSuccess,
                  account |-> addr,
                  amount |-> AtomicAvaxAmount(out.Amount),
                  metadata |-> [kind |-> "exported"],
                  coinChange |-> <<[identifier |-> UTXOIDString(txID, k - 1),
                                    action |-> CoinCreated]>>]
       IN ExportedOutsLoop(txID, exportedOuts, k + 1,
            [operations |-> Append(acc.operations, op),
             totalAmount |-> acc.totalAmount + out.Amount,
             err |-> FALSE])

\* createExportedOuts: the operations of the exported outputs, without
\* index, and their total amount; an error if the network has no HRP
createExportedOuts(hrpErr, txID, exportedOuts) ==
  IF hrpErr THEN [operations |-> <<>>, totalAmount |-> 0, err |-> TRUE]
  ELSE ExportedOutsLoop(txID, exportedOuts, 1,
         [operations |-> <<>>, totalAmount |-> 0, err |-> FALSE])

\* the state of crossChainTransaction before its loops
StartState(rawIdx) ==
  [ops |-> <<>>, exportedOuts |-> <<>>, idx |-> rawIdx, hasExported |-> FALSE,
   totalInputAmount |-> 0, totalOutputAmount |-> 0, err |-> FALSE]

\* the loop over the imported inputs from the k-th on: the running input total
RECURSIVE ImportInputsLoop(_, _, _)
ImportInputsLoop(t, k, total) ==
  IF k > Len(t.ImportedInputs) THEN total
  ELSE ImportInputsLoop(t, k + 1, total + Int64(t.ImportedInputs[k].Amount))

\* the loop over the outputs of an import from the k-th on
RECURSIVE ImportOutsLoop(_, _, _, _, _)
ImportOutsLoop(avaxAssetID, txIDs, t, k, st) ==
  IF k > Len(t.Outs) THEN st
  ELSE LET out == t.Outs[k]
       IN IF out.AssetID # avaxAssetID
          THEN ImportOutsLoop(avaxAssetID, txIDs, t, k + 1, st)
          ELSE ImportOutsLoop(avaxAssetID, txIDs, t, k + 1,
                 [st EXCEPT
                    !.totalOutputAmount = @ + out.Amount,
                    !.ops = Append(@, AtomicOp(st.idx, out.Address,
                              [value |-> out.Amount * X2crate,
                               currency |-> AvaxCurrency],
                              [kind |-> "import", tx |-> t.ID, tx_ids |-> txIDs,
                               asset_id |-> out.AssetID],
                              <<>>)),
                    !.idx = @ + 1])

\* the loop over the inputs of an export from the k-th on
RECURSIVE ExportInsLoop(_, _, _, _, _, _)
ExportInsLoop(chainIDToAliasMapping, hrpErr, avaxAssetID, t, k, st) ==
  IF k > Len(t.Ins) \/ st.err THEN st
  ELSE LET in == t.Ins[k]
       IN IF in.AssetID # avaxAssetID
          THEN ExportInsLoop(chainIDToAliasMapping, hrpErr, avaxAssetID, t, k + 1, st)
          ELSE LET st1 == [st EXCEPT
                             !.totalInputAmount = @ + in.Amount,
                             !.ops = Append(@, AtomicOp(st.idx, in.Address,
                                       [value |-> in.Amount * (-X2crate),
                                        currency |-> AvaxCurrency],
                                       [kind |-> "export", tx |-> t.ID,
                                        asset_id |-> in.AssetID],
                                       <<>>)),
                             !.idx = @ + 1]
                   r == createExportedOuts(hrpErr, t.ID, t.ExportedOutputs.outs)
               IN IF ~t.ExportedOutputs.isNil
                     /\ t.DestinationChain \in chainIDToAliasMapping
                  THEN IF r.err THEN [st1 EXCEPT !.err = TRUE]
                       ELSE ExportInsLoop(chainIDToAliasMapping, hrpErr,
                              avaxAssetID, t, k + 1,
                              [st1 EXCEPT
                                 !.exportedOuts = @ \o r.operations,
                                 !.hasExported = TRUE,
                                 !.totalOutputAmount = @ + r.totalAmount])
                  ELSE ExportInsLoop(chainIDToAliasMapping, hrpErr,
                         avaxAssetID, t, k + 1, st1)

\* WithIndices numbering the exported outputs from the start index
WithIndices_FromStart(exportedOuts, idx) ==
  [k \in 1..Len(exportedOuts) |->
     [exportedOuts[k] EXCEPT !.index = k - 1]]

\* the exported outputs with their indices, which follow the native operations
WithIndices(exportedOuts, idx) ==
  [k \in 1..Len(exportedOuts) |-> [exportedOuts[k] EXCEPT !.index = idx + k - 1]]

\* the result of crossChainTransaction
NoResult == [ops |-> <<>>, hasExported |-> FALSE, exportedOuts |-> <<>>,
             txFee |-> <<>>, err |-> TRUE]

\* crossChainTransaction returning no operations and a zero fee for a
\* transaction of another type
crossChainTransaction_UnsupportedIsEmpty(chainIDToAliasMapping, signErr, hrpErr, txIDs, rawIdx, avaxAssetID, tx) ==
  IF signErr THEN NoResult
  ELSE IF tx.kind \notin {"import", "export"}
  THEN [NoResult EXCEPT !.txFee = <<AtomicAvaxAmount(0)>>, !.err = FALSE]
  ELSE LET st == IF tx.kind = "import"
                 THEN ImportOutsLoop(avaxAssetID, txIDs, tx, 1,
                        [StartState(rawIdx) EXCEPT
                           !.totalInputAmount = ImportInputsLoop(tx, 1, 0)])
                 ELSE ExportInsLoop(chainIDToAliasMapping, hrpErr, avaxAssetID,
                                    tx, 1, StartState(rawIdx))
       IN IF st.err THEN NoResult
          ELSE [ops |-> st.ops,
                hasExported |-> st.hasExported,
                exportedOuts |-> WithIndices(st.exportedOuts, st.idx),
                txFee |-> <<AtomicAvaxAmount(st.totalInputAmount
                                             - st.totalOutputAmount)>>,
                err |-> FALSE]

\* crossChainTransaction: the operations and the metadata (exported outputs
\* if any, tx fee) of an atomic transaction, or an error; signErr, hrpErr
\* are whether tx.Sign and GetHRP fail, txIDs the order in which the map
\* yields the de-duplicated source transaction ids
crossChainTransaction(chainIDToAliasMapping, signErr, hrpErr, txIDs, rawIdx, avaxAssetID, tx) ==
  IF signErr THEN NoResult
  ELSE IF tx.kind \notin {"import", "export"} THEN NoResult
  ELSE LET st == IF tx.kind = "import"
                 THEN ImportOutsLoop(avaxAssetID, txIDs, tx, 1,
                        [StartState(rawIdx) EXCEPT
                           !.totalInputAmount = ImportInputsLoop(tx, 1, 0)])
                 ELSE ExportInsLoop(chainIDToAliasMapping, hrpErr, avaxAssetID,
                                    tx, 1, StartState(rawIdx))
       IN IF st.err THEN NoResult
          ELSE [ops |-> st.ops,
                hasExported |-> st.hasExported,
                exportedOuts |-> WithIndices(st.exportedOuts, st.idx),
                txFee |-> <<AtomicAvaxAmount(st.totalInputAmount
                                             - st.totalOutputAmount)>>,
                err |-> FALSE]

\* ------------------------------------------------------------ inputs
\* the accounts of the traces: two addresses other than the zero address
AcctA == zeroAddress + 1
AcctB == zeroAddress + 2

\* every call kind, address pair, value and revert flag
CallsAll ==
  {FlatCall(t, f, o, v, r) :
     t \in {OpCall, OpCallCode, OpDelegateCall, OpStaticCall, OpCreate,
            OpCreate2, OpSelfDestruct},
     f \in {AcctA, AcctB}, o \in {AcctA, AcctB}, v \in {0, 40, 100},
     r \in BOOLEAN}

\* the calls of the longer traces: transfers between A and B, creations,
\* self-destructs of B and of A, a reverted call and a zero-value call
CallsCore ==
  {FlatCall(OpCall, p[1], p[2], v, FALSE) :
     p \in {<<AcctA, AcctB>>, <<AcctB, AcctA>>, <<AcctB, AcctB>>}, v \in {40, 100}}
  \cup {FlatCall(OpCreate, AcctA, AcctB, 100, FALSE),
        FlatCall(OpCreate, AcctB, AcctA, 40, FALSE),
        FlatCall(OpCreate, AcctB, AcctB, 0, FALSE),
        FlatCall(OpSelfDestruct, AcctB, AcctA, 40, FALSE),
        FlatCall(OpSelfDestruct, AcctB, AcctA, 0, FALSE),
        FlatCall(OpSelfDestruct, AcctB, AcctB, 40, FALSE),
        FlatCall(OpSelfDestruct, AcctA, AcctB, 100, FALSE),
        FlatCall(OpCall, AcctB, AcctA, 40, TRUE),
        FlatCall(OpCall, AcctA, AcctB, 0, FALSE)}

\* the traces before a call of any kind: none, B destroyed, B destroyed and
\* then credited
Prefixes ==
  {<<>>,
   <<FlatCall(OpSelfDestruct, AcctB, AcctA, 40, FALSE)>>,
   <<FlatCall(OpSelfDestruct, AcctB, AcctA, 40, FALSE),
     FlatCall(OpCall, AcctA, AcctB, 100, FALSE)>>}

\* the trace after which A and B are both destroyed and A holds 100
BothDestroyed ==
  <<FlatCall(OpSelfDestruct, AcctA, AcctB, 100, FALSE),
    FlatCall(OpSelfDestruct, AcctB, AcctA, 100, FALSE)>>

\* the topics of a transfer log: signature, from, to, token id, one more
TopicsOf(sig, f, o, n) == SubSeq(<<sig, f, o, 9, 9>>, 1, n)

\* the logs: transfer logs of 1 to 5 topics, a log of another event, a log
\* without topics
LogsAll ==
  {Log(c, TopicsOf(transferMethodHash, f, o, n), 5) :
     c \in {1, 2}, f \in {0, 1, AddrSpace}, o \in {0, 2, AddrSpace}, n \in 1..5}
  \cup {Log(1, TopicsOf(8, 1, 2, 3), 5), Log(1, <<>>, 5)}

\* the logs of the longer lists: transfers and mints of a listed and of an
\* unlisted token, fungible or not, and a log without topics
LogsCore ==
  {Log(c, TopicsOf(transferMethodHash, p[1], p[2], n), 5) :
     c \in {1, 2}, p \in {<<1, 2>>, <<0, 2>>}, n \in {3, 4}}
  \cup {Log(1, <<>>, 5)}

\* the gating configurations: analytics mode, allow-list, unknown tokens
Configs ==
  {[isAnalyticsMode |-> a, standardModeWhiteList |-> w, includeUnknownTokens |-> u] :
     a \in BOOLEAN, u \in BOOLEAN,
     w \in {<<>>, <<AddrString(1, "lower")>>, <<AddrString(1, "checksum")>>}}

DefaultConfig ==
  [isAnalyticsMode |-> TRUE, standardModeWhiteList |-> <<>>,
   includeUnknownTokens |-> TRUE]

\* receipt.GasUsed and msg.GasPrice of the transactions
GasUsed == {0, 21000, 40000}
GasPrices == {0, 25, 50000}

\* the arguments of one call of Transaction
MkArgs(t, l, c, gasUsed, gasPrice) ==
  [flattenedTrace |-> t, logs |-> l, config |-> c, sender |-> AcctA,
   feeReceiver |-> 3, gasUsed |-> gasUsed, gasPrice |-> gasPrice]

\* the asset id of the native asset, and the chains that have an alias
avaxAssetID == "AVAX"
chainIDToAliasMapping == {"P"}

\* the imported inputs: native ones from two source transactions, one of
\* another asset, one whose amount has the top bit set
ImportedInputs ==
  {[TxID |-> "s1", AssetID |-> "AVAX", Amount |-> 1],
   [TxID |-> "s2", AssetID |-> "AVAX", Amount |-> 2],
   [TxID |-> "s1", AssetID |-> "OTHER", Amount |-> 1],
   [TxID |-> "s2", AssetID |-> "AVAX", Amount |-> 2 ^ (WordBits - 1)]}

\* the outputs of an import and the inputs of an export
EVMPuts ==
  {[Address |-> AcctA, AssetID |-> a, Amount |-> v] :
     a \in {"AVAX", "OTHER"}, v \in {1, 2}}

\* the exported outputs of an export
ExportedOutputs ==
  {[AssetID |-> "AVAX", Amount |-> 1, Addrs |-> <<"x">>],
   [AssetID |-> "AVAX", Amount |-> 2, Addrs |-> <<>>],
   [AssetID |-> "OTHER", Amount |-> 2, Addrs |-> <<"y">>]}

ImportTx(ins, outs) ==
  [kind |-> "import", ID |-> "tx", ImportedInputs |-> ins, Outs |-> outs]

ExportTx(ins, isNil, outs, chain) ==
  [kind |-> "export", ID |-> "tx", Ins |-> ins,
   ExportedOutputs |-> [isNil |-> isNil, outs |-> outs],
   DestinationChain |-> chain]

\* an atomic transaction that is neither an import nor an export
OtherTx == [kind |-> "other", ID |-> "tx"]

\* the atomic transactions of the longer blocks
AtomicCore ==
  {ImportTx(<<[TxID |-> "s1", AssetID |-> "AVAX", Amount |-> 2]>>,
            <<[Address |-> AcctA, AssetID |-> "AVAX", Amount |-> 1]>>),
   ExportTx(<<[Address |-> AcctA, AssetID |-> "AVAX", Amount |-> 2]>>, FALSE,
            <<[AssetID |-> "AVAX", Amount |-> 1, Addrs |-> <<"x">>]>>, "P"),
   OtherTx}

\* the atomic transactions and start indices crossChainTransaction is applied
\* to on its own
DirectTxs ==
  {ImportTx(ins, outs) :
     ins \in UNION {[1..a -> ImportedInputs] : a \in 0..MaxIO},
     outs \in UNION {[1..b -> EVMPuts] : b \in 0..MaxIO}} \cup
  {ExportTx(ins, FALSE, outs, "P") :
     ins \in UNION {[1..a -> EVMPuts] : a \in 0..MaxIO},
     outs \in UNION {[1..b -> ExportedOutputs] : b \in 0..MaxIO}} \cup
  {OtherTx}
StartIndices == {0, 3}

\* the orders in which a map yields the elements of S
Orders(S) == {o \in [1..Cardinality(S) -> S] : {o[k] : k \in DOMAIN o} = S}

\* the source transaction ids of an atomic transaction
SourceTxIDs(tx) ==
  IF tx.kind = "import"
  THEN {tx.ImportedInputs[k].TxID : k \in 1..Len(tx.ImportedInputs)}
  ELSE {}

NoBlock == [extData |-> "empty", txs |-> <<>>]
NoCall == [rawIdx |-> 0, tx |-> OtherTx, result |-> NoResult, made |-> FALSE]
NoXRet == [state |-> "none", transactions |-> <<>>]

NoFirst == [made |-> FALSE, ops |-> <<>>]
NoArgs == MkArgs(<<>>, <<>>, DefaultConfig, 0, 0)
NoRet == [state |-> "none", ops |-> <<>>]

\* ------------------------------------------------------------ state
VARIABLES
  args,               \* the arguments of the running call of Transaction
  pc,                 \* where the call is: idle, fee, trace, finalize, logs, done
  ops,                \* Transaction's operations so far
  tops,               \* traceOps's operations so far
  destroyedAccounts,  \* traceOps's destroyed-accounts map
  pending,            \* the map keys the finalization loop has not visited
  i,                  \* the next call of the trace
  j,                  \* the next receipt log
  lookups,            \* the logs GetContractInfo was called for, with results
  ret,                \* what Transaction returned
  process,            \* running, or halted by log.Fatalf
  block,              \* the block CrossChainTransactions is mapping
  xpc,                \* where CrossChainTransactions is: idle, extract, atomic, done
  x,                  \* the next atomic transaction of the block
  transactions,       \* CrossChainTransactions's transactions so far
  call,               \* the last call of crossChainTransaction, with its result
  xret,               \* what CrossChainTransactions returned
  first               \* what an earlier run of traceOps returned on the same inputs

\* the variables of CrossChainTransactions
avars == <<block, xpc, x, transactions, call, xret>>

\* the variables of Transaction
tvars == <<args, pc, ops, tops, destroyedAccounts, pending, i, j, lookups, ret,
           process>>

vars == <<args, pc, ops, tops, destroyedAccounts, pending, i, j, lookups, ret,
          process, block, xpc, x, transactions, call, xret, first>>

Init ==
  /\ args = NoArgs
  /\ pc = "idle"
  /\ ops = <<>>
  /\ tops = <<>>
  /\ destroyedAccounts = EmptyMap
  /\ pending = {}
  /\ i = 1
  /\ j = 1
  /\ lookups = <<>>
  /\ ret = NoRet
  /\ process = "running"
  /\ block = NoBlock
  /\ xpc = "idle"
  /\ x = 1
  /\ transactions = <<>>
  /\ call = NoCall
  /\ xret = NoXRet
  /\ first = NoFirst

\* a call of Transaction arrives: a trace of up to MaxTrace calls, or a call
\* of any kind after a prefix, or up to MaxLogs logs, or one log of any shape
\* after a trace, or a trace with any gas used and gas price
Begin ==
  /\ pc = "idle" /\ process = "running"
  /\ \/ \E k \in 0..MaxTrace : \E t \in [1..k -> CallsCore] :
          args' = MkArgs(t, <<>>, DefaultConfig, 21000, 25)
     \/ \E p \in Prefixes \cup {BothDestroyed}, c \in CallsAll :
          args' = MkArgs(Append(p, c), <<>>, DefaultConfig, 21000, 25)
     \/ \E k \in 0..MaxLogs : \E l \in [1..k -> LogsCore] : \E c \in Configs :
          args' = MkArgs(<<>>, l, c, 21000, 25)
     \/ \E t \in Prefixes, l \in LogsAll, c \in Configs :
          args' = MkArgs(t, <<l>>, c, 21000, 25)
     \/ \E t \in Prefixes, g \in GasUsed, p \in GasPrices :
          args' = MkArgs(t, <<>>, DefaultConfig, g, p)
  /\ pc' = "fee"
  /\ UNCHANGED <<ops, tops, destroyedAccounts, pending, i, j, lookups, ret, process>>
  /\ UNCHANGED avars
  /\ UNCHANGED first

\* the fee operations, and the start of traceOps
Fee ==
  /\ pc = "fee"
  /\ ops' = FeeOps(args.sender, args.feeReceiver, args.gasUsed, args.gasPrice)
  /\ pc' = "trace"
  /\ UNCHANGED <<args, tops, destroyedAccounts, pending, i, j, lookups, ret, process>>
  /\ UNCHANGED avars
  /\ UNCHANGED first

\* traceOps returns at once on an empty trace
TraceEmpty ==
  /\ pc = "trace" /\ Len(args.flattenedTrace) = 0
  /\ ops' = ops \o tops
  /\ pc' = "logs"
  /\ UNCHANGED <<args, tops, destroyedAccounts, pending, i, j, lookups, ret, process>>
  /\ UNCHANGED avars
  /\ UNCHANGED first

\* one iteration of the loop over the trace
TraceCall ==
  /\ pc = "trace" /\ i <= Len(args.flattenedTrace)
  /\ LET r == CallStep(args.flattenedTrace[i], tops, destroyedAccounts, Len(ops))
     IN /\ tops' = r.ops
        /\ destroyedAccounts' = r.d
  /\ i' = i + 1
  /\ UNCHANGED <<args, pc, ops, pending, j, lookups, ret, process>>
  /\ UNCHANGED avars
  /\ UNCHANGED first

\* the loop over the trace ends and the loop over the map begins
TraceLoopEnd ==
  /\ pc = "trace" /\ Len(args.flattenedTrace) > 0 /\ i > Len(args.flattenedTrace)
  /\ pending' = DOMAIN destroyedAccounts
  /\ pc' = "finalize"
  /\ UNCHANGED <<args, ops, tops, destroyedAccounts, i, j, lookups, ret, process>>
  /\ UNCHANGED avars
  /\ UNCHANGED first

\* one iteration of the loop over the map, in the order the map yields
Finalize ==
  /\ pc = "finalize"
  /\ \E acct \in pending :
       LET val == destroyedAccounts[acct]
       IN /\ pending' = pending \ {acct}
          /\ IF Sign(val) = 0
             THEN UNCHANGED <<tops, pc, process>>
             ELSE IF Sign(val) < 0
             THEN /\ process' = "halted"
                  /\ pc' = "halted"
                  /\ UNCHANGED tops
             ELSE /\ tops' = Append(tops, DestructOp(acct, val, tops))
                  /\ UNCHANGED <<pc, process>>
  /\ UNCHANGED <<args, ops, destroyedAccounts, i, j, lookups, ret>>
  /\ UNCHANGED avars
  /\ UNCHANGED first

\* traceOps returns and Transaction appends its operations
TraceReturn ==
  /\ pc = "finalize" /\ pending = {}
  /\ ops' = ops \o tops
  /\ pc' = "logs"
  /\ UNCHANGED <<args, tops, destroyedAccounts, pending, i, j, lookups, ret, process>>
  /\ UNCHANGED avars
  /\ UNCHANGED first

\* traceOps is applied once more to the same trace and start index: what it
\* returned is kept and its locals start afresh
Rerun ==
  /\ pc = "logs" /\ j = 1 /\ lookups = <<>> /\ ~first.made
  /\ first' = [made |-> TRUE, ops |-> tops]
  /\ ops' = SubSeq(ops, 1, Len(ops) - Len(tops))
  /\ tops' = <<>>
  /\ destroyedAccounts' = EmptyMap
  /\ pending' = {}
  /\ i' = 1
  /\ pc' = "trace"
  /\ UNCHANGED <<args, j, lookups, ret, process>>
  /\ UNCHANGED avars

\* one iteration of the loop over the receipt logs
LogIter ==
  /\ pc = "logs" /\ j <= Len(args.logs)
  /\ \E info \in ClientResults :
       LET r == LogStep(args.logs[j], ops, info, args.config.isAnalyticsMode,
                        args.config.standardModeWhiteList,
                        args.config.includeUnknownTokens)
       IN /\ lookups' = IF r.looked THEN Append(lookups, [log |-> j, info |-> info])
                        ELSE lookups
          /\ IF r.err
             THEN /\ ret' = [state |-> "err", ops |-> <<>>]
                  /\ pc' = "done"
                  /\ UNCHANGED <<ops, j>>
             ELSE /\ ops' = r.ops
                  /\ j' = j + 1
                  /\ UNCHANGED <<ret, pc>>
  /\ UNCHANGED <<args, tops, destroyedAccounts, pending, i, process>>
  /\ UNCHANGED avars
  /\ UNCHANGED first

\* Transaction returns the transaction record
Return ==
  /\ pc = "logs" /\ j > Len(args.logs)
  /\ ret' = [state |-> "ok", ops |-> ops]
  /\ pc' = "done"
  /\ UNCHANGED <<args, ops, tops, destroyedAccounts, pending, i, j, lookups, process>>
  /\ UNCHANGED avars
  /\ UNCHANGED first

\* the caller takes the result; the mapper is ready for the next transaction
NextTransaction ==
  /\ pc = "done" /\ process = "running"
  /\ args' = NoArgs
  /\ pc' = "idle"
  /\ ops' = <<>>
  /\ tops' = <<>>
  /\ destroyedAccounts' = EmptyMap
  /\ pending' = {}
  /\ i' = 1
  /\ j' = 1
  /\ lookups' = <<>>
  /\ ret' = NoRet
  /\ first' = NoFirst
  /\ UNCHANGED process
  /\ UNCHANGED avars

\* a call of CrossChainTransactions arrives: a block without atomic data,
\* or with one import or one export, or with up to MaxAtomic transactions
BeginBlock ==
  /\ xpc = "idle"
  /\ \/ block' = NoBlock
     \/ \E a \in 0..MaxIO, b \in 0..MaxIO :
          \E ins \in [1..a -> ImportedInputs], outs \in [1..b -> EVMPuts] :
             block' = [extData |-> "data", txs |-> <<ImportTx(ins, outs)>>]
     \/ \E a \in 0..MaxIO, b \in 0..MaxIO :
          \E ins \in [1..a -> EVMPuts], outs \in [1..b -> ExportedOutputs] :
             \E chain \in {"P", "Q"} :
                block' = [extData |-> "data",
                          txs |-> <<ExportTx(ins, FALSE, outs, chain)>>]
     \/ \E a \in 0..MaxIO : \E ins \in [1..a -> EVMPuts] :
          block' = [extData |-> "data", txs |-> <<ExportTx(ins, TRUE, <<>>, "P")>>]
     \/ \E a \in 0..MaxAtomic : \E txs \in [1..a -> AtomicCore] :
          block' = [extData |-> "data", txs |-> txs]
  /\ xpc' = "extract"
  /\ UNCHANGED <<x, transactions, call, xret>>
  /\ UNCHANGED tvars
  /\ UNCHANGED first

\* the block has no atomic data: the empty list is returned
ExtractNone ==
  /\ xpc = "extract" /\ block.extData = "empty"
  /\ xret' = [state |-> "ok", transactions |-> <<>>]
  /\ xpc' = "done"
  /\ UNCHANGED <<block, x, transactions, call>>
  /\ UNCHANGED tvars
  /\ UNCHANGED first

\* evm.ExtractAtomicTxs decodes the atomic data, or fails
Extract ==
  /\ xpc = "extract" /\ block.extData # "empty"
  /\ \E err \in BOOLEAN :
       IF err
       THEN /\ xret' = [state |-> "err", transactions |-> <<>>]
            /\ xpc' = "done"
       ELSE /\ xpc' = "atomic"
            /\ UNCHANGED xret
  /\ UNCHANGED <<block, x, transactions, call>>
  /\ UNCHANGED tvars
  /\ UNCHANGED first

\* one iteration of the loop over the atomic transactions
AtomicTx ==
  /\ xpc = "atomic" /\ x <= Len(block.txs)
  /\ \E signErr \in BOOLEAN, hrpErr \in BOOLEAN,
        txIDs \in Orders(SourceTxIDs(block.txs[x])) :
       LET tx == block.txs[x]
           r == crossChainTransaction(chainIDToAliasMapping, signErr, hrpErr,
                                      txIDs, 0, avaxAssetID, tx)
       IN /\ call' = [rawIdx |-> 0, tx |-> tx, result |-> r, made |-> TRUE]
          /\ IF r.err
             THEN /\ xret' = [state |-> "err", transactions |-> <<>>]
                  /\ xpc' = "done"
                  /\ UNCHANGED <<x, transactions>>
             ELSE /\ transactions' =
                       Append(transactions,
                              [hash |-> tx.ID, operations |-> r.ops,
                               metadata |-> [hasExported |-> r.hasExported,
                                             exportedOuts |-> r.exportedOuts,
                                             txFee |-> r.txFee]])
                  /\ x' = x + 1
                  /\ UNCHANGED <<xret, xpc>>
  /\ UNCHANGED block
  /\ UNCHANGED tvars
  /\ UNCHANGED first

\* crossChainTransaction applied to an atomic transaction with a start index
\* of the caller's choice
DirectCall ==
  /\ xpc = "idle"
  /\ \E rawIdx \in StartIndices, tx \in DirectTxs :
       \E signErr \in BOOLEAN, hrpErr \in BOOLEAN, txIDs \in Orders(SourceTxIDs(tx)) :
          call' = [rawIdx |-> rawIdx, tx |-> tx, made |-> TRUE,
                   result |-> crossChainTransaction(chainIDToAliasMapping, signErr,
                                hrpErr, txIDs, rawIdx, avaxAssetID, tx)]
  /\ xpc' = "direct"
  /\ UNCHANGED <<block, x, transactions, xret>>
  /\ UNCHANGED tvars
  /\ UNCHANGED first

\* CrossChainTransactions returns the transactions
AtomicReturn ==
  /\ xpc = "atomic" /\ x > Len(block.txs)
  /\ xret' = [state |-> "ok", transactions |-> transactions]
  /\ xpc' = "done"
  /\ UNCHANGED <<block, x, transactions, call>>
  /\ UNCHANGED tvars
  /\ UNCHANGED first

\* the caller takes the result; the mapper is ready for the next block
NextBlock ==
  /\ xpc \in {"done", "direct"}
  /\ block' = NoBlock
  /\ xpc' = "idle"
  /\ x' = 1
  /\ transactions' = <<>>
  /\ call' = NoCall
  /\ xret' = NoXRet
  /\ UNCHANGED tvars
  /\ UNCHANGED first

Next ==
  \/ Begin
  \/ Fee
  \/ TraceEmpty
  \/ TraceCall
  \/ TraceLoopEnd
  \/ Finalize
  \/ TraceReturn
  \/ LogIter
  \/ Return
  \/ NextTransaction

Spec == Init /\ [][Next]_vars

\* Transaction with traceOps applied twice to its inputs
NextRerun ==
  \/ Next
  \/ Rerun

SpecRerun == Init /\ [][NextRerun]_vars

NextAtomic ==
  \/ BeginBlock
  \/ ExtractNone
  \/ Extract
  \/ AtomicTx
  \/ DirectCall
  \/ AtomicReturn
  \/ NextBlock

SpecAtomic == Init /\ [][NextAtomic]_vars

\* ------------------------------------------------------------ properties
\* the calls traceOps has folded so far
Folded == SubSeq(args.flattenedTrace, 1, i - 1)

\* what each call of a trace is to emit: nothing for a zero-value call of a
\* value-transfer kind, else a debit, and a credit unless the call is a
\* self-destruct to the account itself
RECURSIVE Roles(_)
Roles(t) ==
  IF t = <<>> THEN <<>>
  ELSE LET n == Len(t)
           c == t[n]
           skipped == c.Value = 0 /\ c.Type \in {"CALL", "CALLCODE",
                                                 "DELEGATECALL", "STATICCALL"}
           self == c.Type = "SELFDESTRUCT" /\ c.From = c.To
       IN Roles(SubSeq(t, 1, n - 1))
          \o (IF skipped THEN <<>> ELSE <<[role |-> "debit", call |-> n]>>)
          \o (IF skipped \/ self THEN <<>> ELSE <<[role |-> "credit", call |-> n]>>)

\* C1: the indices of the operations a successful Transaction returns are,
\* in list order, exactly 0, 1, ..., n-1
C1_IndicesContiguous ==
  ret.state = "ok" => \A k \in 1..Len(ret.ops) : ret.ops[k].index = k - 1

\* C1 witness: a returned record with fee, call, liquidation and token operations
C1_Witness ==
  /\ ret.state = "ok"
  /\ \E k \in 1..Len(ret.ops) : ret.ops[k].type = OpDestruct
  /\ \E k \in 1..Len(ret.ops) : ret.ops[k].type = OpErc20Transfer

\* a token operation that is the receiving half of a transfer
IsTokenReceive(op) ==
  \/ op.type = OpErc721TransferReceive
  \/ op.type = OpErc20Transfer /\ op.amount[1].value >= 0

\* a token operation that is not the receiving half of a transfer
IsTokenOther(op) ==
  /\ op.type \in {OpErc20Transfer, OpErc20Mint, OpErc20Burn, OpErc721Mint,
                  OpErc721Burn, OpErc721TransferSender}
  /\ ~IsTokenReceive(op)

\* the sending half that belongs to a receiving half
IsSendOf(send, recv) ==
  /\ send.index = recv.index - 1
  /\ IF recv.type = OpErc721TransferReceive
     THEN send.type = OpErc721TransferSender
     ELSE /\ send.type = OpErc20Transfer
          /\ send.amount[1].value = -recv.amount[1].value
          /\ send.amount[1].currency = recv.amount[1].currency

\* C2: every credit of a call and every receive of a transfer log has exactly
\* one related index, the index of the debit or send emitted just before it
\* for the same call or log, which is its own index minus 1; debits, sends,
\* mints, burns and liquidations have none
C2_CreditsRelateToDebits ==
  LET R == Roles(Folded)
  IN /\ Len(tops) >= Len(R)
     /\ \A k \in 1..Len(tops) :
          IF k <= Len(R) /\ R[k].role = "credit"
          THEN /\ tops[k].related = <<tops[k].index - 1>>
               /\ R[k - 1] = [role |-> "debit", call |-> R[k].call]
               /\ tops[k - 1].index = tops[k].index - 1
               /\ tops[k - 1].account = args.flattenedTrace[R[k].call].From
               /\ tops[k].account = args.flattenedTrace[R[k].call].To
          ELSE tops[k].related = <<>>
     /\ \A k \in 1..Len(ops) :
          /\ IsTokenReceive(ops[k]) =>
               /\ ops[k].related = <<ops[k].index - 1>>
               /\ k > 1 /\ IsSendOf(ops[k - 1], ops[k])
          /\ IsTokenOther(ops[k]) => ops[k].related = <<>>

\* C2 witness: a returned record with the credit of a call, a liquidation
\* and the receive of a transfer
C2_Witness ==
  /\ ret.state = "ok"
  /\ \E k \in 1..Len(tops) : tops[k].related # <<>>
  /\ \E k \in 1..Len(tops) : tops[k].type = OpDestruct
  /\ \E k \in 1..Len(ret.ops) : IsTokenReceive(ret.ops[k])

\* the two-call trace of the example: A pays B 100, then B self-destructs to A
C4Trace ==
  <<FlatCall(OpCall, AcctA, AcctB, 100, FALSE),
    FlatCall(OpSelfDestruct, AcctB, AcctA, 0, FALSE)>>

\* type, account and amount of the operations of traceOps
Shapes == [k \in 1..Len(tops) |-> <<tops[k].type, tops[k].account, tops[k].amount>>]

\* C4 as stated: the example trace yields debit(A,-100), credit(B,+100), no
\* operation for the self-destruct, and a trailing destruction of -100 on B
C4_Original ==
  (args.flattenedTrace = C4Trace /\ pc = "logs") =>
    Shapes = << <<OpCall, AcctA, AvaxAmount(-100)>>,
                <<OpCall, AcctB, AvaxAmount(100)>>,
                <<OpDestruct, AcctB, AvaxAmount(-100)>> >>

\* C4 amended: the example trace yields debit(A,-100) and credit(B,+100),
\* then a self-destruct debit on B and a self-destruct credit on A related to
\* it, both without amount, and no account-destruction operation
C4_SelfDestructPairNoLiquidation ==
  (args.flattenedTrace = C4Trace /\ pc = "logs") =>
    tops = <<Op(2, OpCall, StatusSuccess, AcctA, AvaxAmount(-100), <<>>),
             Op(3, OpCall, StatusSuccess, AcctB, AvaxAmount(100), <<2>>),
             Op(4, OpSelfDestruct, StatusSuccess, AcctB, <<>>, <<>>),
             Op(5, OpSelfDestruct, StatusSuccess, AcctA, <<>>, <<4>>)>>

\* C4 witness: traceOps has returned on the example trace
C4_Witness == args.flattenedTrace = C4Trace /\ pc = "logs" /\ Len(tops) > 0

C6_NegativeEntryIsRecoverable ==
  (/\ pc \in {"finalize", "logs", "done", "halted"}
   /\ \E a \in DOMAIN destroyedAccounts \ pending : destroyedAccounts[a] < 0)
  => (process = "running" /\ ret.state = "err")

\* the last self-destruct of account a in trace t (0: none)
LastDestruct(t, a) ==
  LET S == {k \in 1..Len(t) : t[k].Type = "SELFDESTRUCT" /\ t[k].From = a}
  IN IF S = {} THEN 0 ELSE CHOOSE k \in S : \A m \in S : m <= k

\* account a is created again after its last self-destruct
Resurrected(t, a) ==
  \E k \in (LastDestruct(t, a) + 1)..Len(t) :
     t[k].Type \in {"CREATE", "CREATE2"} /\ t[k].To = a

\* the value the successful non-zero calls from the k-th on credit to
\* account a, minus the value they debit from it
RECURSIVE NetSince(_, _, _)
NetSince(t, a, k) ==
  IF k > Len(t) THEN 0
  ELSE (IF ~t[k].Revert /\ t[k].To = a THEN t[k].Value ELSE 0)
       - (IF ~t[k].Revert /\ t[k].From = a THEN t[k].Value ELSE 0)
       + NetSince(t, a, k + 1)

\* the ledger value of account a after trace t
Residual(t, a) == NetSince(t, a, LastDestruct(t, a) + 1)

\* C7: the ledger holds, for each account destroyed and not created again,
\* the value credited minus the value debited by successful calls since its
\* last self-destruct; when traceOps returns, the operations after the
\* call-derived ones are one account-destruction operation of -v for each
\* account with ledger value v > 0, and no other
C7_LiquidationMatchesLedger ==
  /\ pc \in {"trace", "finalize", "logs", "done"} =>
       /\ DOMAIN destroyedAccounts =
            {a \in {AcctA, AcctB} :
               LastDestruct(Folded, a) > 0 /\ ~Resurrected(Folded, a)}
       /\ \A a \in DOMAIN destroyedAccounts :
            destroyedAccounts[a] = Residual(Folded, a)
  /\ pc \in {"logs", "done"} =>
       LET n == Len(Roles(args.flattenedTrace))
       IN /\ Len(tops) >= n
          /\ \A k \in 1..Len(tops) : (tops[k].type = OpDestruct) <=> (k > n)
          /\ \A k \in (n + 1)..Len(tops) :
               /\ tops[k].account \in DOMAIN destroyedAccounts
               /\ destroyedAccounts[tops[k].account] > 0
               /\ tops[k].amount = AvaxAmount(-destroyedAccounts[tops[k].account])
               /\ tops[k].index = tops[k - 1].index + 1
          /\ \A a \in {AcctA, AcctB} :
               Cardinality({k \in (n + 1)..Len(tops) : tops[k].account = a}) =
                 IF a \in DOMAIN destroyedAccounts /\ Residual(args.flattenedTrace, a) > 0
                 THEN 1 ELSE 0

\* C7 witness: traceOps has returned with a liquidation of an account that
\* was credited and debited after its self-destruct
C7_Witness ==
  /\ pc = "logs"
  /\ \E k \in 1..Len(tops) :
       /\ tops[k].type = OpDestruct
       /\ tops[k].amount = AvaxAmount(-60)

\* the call the next iteration of the trace loop handles
ThisCall == args.flattenedTrace[i]

\* a step of the trace loop
IsTraceStep == pc = "trace" /\ i <= Len(args.flattenedTrace) /\ i' = i + 1

\* C8: a zero-value call of kind CALL, CALLCODE, DELEGATECALL or STATICCALL
\* adds no operation (so takes no index) and leaves the ledger as it is; a
\* zero-value create or self-destruct call is emitted, without amount
C8_ZeroValueCalls ==
  [][IsTraceStep /\ ThisCall.Value = 0 =>
       IF ThisCall.Type \in {"CALL", "CALLCODE", "DELEGATECALL", "STATICCALL"}
       THEN tops' = tops /\ destroyedAccounts' = destroyedAccounts
       ELSE /\ Len(tops') =
                 Len(tops) + (IF ThisCall.Type = "SELFDESTRUCT"
                                 /\ ThisCall.From = ThisCall.To THEN 1 ELSE 2)
            /\ SubSeq(tops', 1, Len(tops)) = tops
            /\ \A k \in (Len(tops) + 1)..Len(tops') :
                 /\ tops'[k].amount = <<>>
                 /\ tops'[k].type = ThisCall.Type
                 /\ tops'[k].index = Len(ops) + k - 1]_vars

\* C8 witness: the fold has passed a zero-value call of a value-transfer kind
\* with an account in the ledger, and a zero-value create
C8_Witness ==
  /\ pc = "trace"
  /\ i = 4
  /\ args.flattenedTrace[1].Type = OpSelfDestruct
  /\ args.flattenedTrace[2].Type = OpCall /\ args.flattenedTrace[2].Value = 0
  /\ args.flattenedTrace[3].Type = OpCreate /\ args.flattenedTrace[3].Value = 0
  /\ Len(tops) = 4

\* a self-destruct to the account itself
SelfDestructToSelf(c) == c.Type = "SELFDESTRUCT" /\ c.From = c.To

\* C9: a SELFDESTRUCT with from = to adds exactly one operation, the debit on
\* from, and no credit, and sets the ledger entry of from to zero whatever it
\* was; the debit of the next call takes the index that follows
C9_SelfDestructToSelf ==
  [][IsTraceStep =>
       /\ SelfDestructToSelf(ThisCall) =>
            /\ Len(tops') = Len(tops) + 1
            /\ SubSeq(tops', 1, Len(tops)) = tops
            /\ Last(tops').account = ThisCall.From
            /\ Last(tops').type = OpSelfDestruct
            /\ Last(tops').related = <<>>
            /\ Last(tops').amount =
                 IF ThisCall.Value = 0 THEN <<>> ELSE AvaxAmount(-ThisCall.Value)
            /\ ThisCall.From \in DOMAIN destroyedAccounts'
            /\ destroyedAccounts'[ThisCall.From] = 0
       /\ (i > 1 /\ SelfDestructToSelf(args.flattenedTrace[i - 1])
           /\ Len(tops') > Len(tops)) =>
            /\ tops'[Len(tops) + 1].index = Last(tops).index + 1
            /\ tops'[Len(tops) + 1].account = ThisCall.From
            /\ tops'[Len(tops) + 1].related = <<>>
            /\ Last(tops).type = OpSelfDestruct
            /\ Last(tops).related = <<>>]_vars

\* C9 witness: an account with a non-zero ledger entry has self-destructed to
\* itself
C9_Witness ==
  /\ pc = "trace"
  /\ i = 4
  /\ args.flattenedTrace[1] = FlatCall(OpSelfDestruct, AcctB, AcctA, 40, FALSE)
  /\ args.flattenedTrace[2] = FlatCall(OpCall, AcctA, AcctB, 100, FALSE)
  /\ SelfDestructToSelf(args.flattenedTrace[3])
  /\ destroyedAccounts[AcctB] = 0
  /\ Len(tops) = 5

\* C9 witness of the next call: a call has been emitted after a self-destruct
\* to self
C9_NextCallWitness ==
  /\ pc = "trace"
  /\ i = 3
  /\ SelfDestructToSelf(args.flattenedTrace[1])
  /\ Len(tops) = 3

\* C10: a transfer log of 3 or 4 topics that is translated adds one mint
\* operation on to when from is the zero address (also when to is zero too),
\* one burn operation on from when only to is the zero address, and else a
\* send on from at index N and a receive on to at index N+1 related to N
C10_MintBurnTransfer ==
  [][(/\ pc = "logs"
      /\ Len(lookups') = Len(lookups) + 1
      /\ ~Last(lookups').info.err
      /\ (args.config.includeUnknownTokens \/ Last(lookups').info.symbol = "TOK"))
     => LET log == args.logs[j]
            erc20 == Len(log.Topics) = 3
            f == log.Topics[2] % AddrSpace
            o == log.Topics[3] % AddrSpace
            N == Len(ops)
            new == SubSeq(ops', N + 1, Len(ops'))
        IN /\ Len(log.Topics) \in {3, 4}
           /\ SubSeq(ops', 1, N) = ops
           /\ IF f = 0
              THEN /\ Len(new) = 1
                   /\ new[1].type = (IF erc20 THEN OpErc20Mint ELSE OpErc721Mint)
                   /\ new[1].account = o
                   /\ new[1].index = N
                   /\ new[1].related = <<>>
              ELSE IF o = 0
              THEN /\ Len(new) = 1
                   /\ new[1].type = (IF erc20 THEN OpErc20Burn ELSE OpErc721Burn)
                   /\ new[1].account = f
                   /\ new[1].index = N
                   /\ new[1].related = <<>>
              ELSE /\ Len(new) = 2
                   /\ new[1].type = (IF erc20 THEN OpErc20Transfer
                                     ELSE OpErc721TransferSender)
                   /\ new[2].type = (IF erc20 THEN OpErc20Transfer
                                     ELSE OpErc721TransferReceive)
                   /\ new[1].account = f /\ new[2].account = o
                   /\ new[1].index = N /\ new[2].index = N + 1
                   /\ new[1].related = <<>> /\ new[2].related = <<N>>]_vars

\* C10 witness: a log with from and to both zero has been translated to a mint
C10_Witness ==
  /\ pc = "logs"
  /\ j = 2
  /\ Len(args.logs[1].Topics) = 3
  /\ args.logs[1].Topics[2] % AddrSpace = 0
  /\ args.logs[1].Topics[3] % AddrSpace = 0
  /\ Len(ops) > 0 /\ Last(ops).type = OpErc20Mint

\* the sum of the amounts of the elements of s whose asset is the native one
RECURSIVE NativeSum(_)
NativeSum(s) ==
  IF s = <<>> THEN 0
  ELSE (IF s[1].AssetID = "AVAX" THEN s[1].Amount ELSE 0) + NativeSum(Tail(s))

\* the native-asset inputs of an atomic transaction
NativeInputs(tx) ==
  IF tx.kind = "import" THEN NativeSum(tx.ImportedInputs) ELSE NativeSum(tx.Ins)

\* the native-asset outputs of an atomic transaction, each counted once; the
\* exported outputs of an export count when they are declared and the
\* destination chain has an alias
NativeOutputs(tx) ==
  IF tx.kind = "import" THEN NativeSum(tx.Outs)
  ELSE IF ~tx.ExportedOutputs.isNil /\ tx.DestinationChain \in chainIDToAliasMapping
  THEN NativeSum(tx.ExportedOutputs.outs)
  ELSE 0

\* C3 as stated: the tx fee of an import or export is the sum of its
\* native-asset inputs minus the sum of its native-asset outputs, each output
\* counted once
C3_FeeIsNativeInputsMinusOutputs ==
  (call.made /\ ~call.result.err) =>
    call.result.txFee =
      <<AtomicAvaxAmount(NativeInputs(call.tx) - NativeOutputs(call.tx))>>

\* the first topic of the log is the signature of Transfer
IsTransferLog(l) == Len(l.Topics) > 0 /\ l.Topics[1] = transferMethodHash

\* analytics mode is on, or the allow-list holds the emitting address in
\* some letter case
PassesAllowList(l) ==
  \/ args.config.isAnalyticsMode
  \/ \E k \in 1..Len(args.config.standardModeWhiteList) :
       args.config.standardModeWhiteList[k].addr = l.Address

\* the log has the number of topics of an ERC-20 or of an ERC-721 transfer
HasTransferTopics(l) == Len(l.Topics) \in {3, 4}

\* the log gets as far as the lookup of its contract
ReachesLookup(l) == IsTransferLog(l) /\ PassesAllowList(l) /\ HasTransferTopics(l)

\* the logs the loop has been through: those before j, and the one at j when
\* the loop ended on it
LogsDone == IF pc = "done" /\ ret.state = "err" THEN 1..j ELSE 1..(j - 1)

\* C11: the contract lookup is made for exactly the logs that carry the
\* transfer signature, pass the allow-list gate and have 3 or 4 topics; and
\* when a lookup fails it is the last one made, and Transaction returns the
\* error with no operations, whatever the earlier logs have built
C11_LookupFailureAborts ==
  pc \in {"logs", "done"} =>
    /\ {lookups[k].log : k \in 1..Len(lookups)} =
         {m \in LogsDone : ReachesLookup(args.logs[m])}
    /\ \A k \in 1..Len(lookups) :
         lookups[k].info.err =>
           /\ k = Len(lookups)
           /\ pc = "done"
           /\ ret = [state |-> "err", ops |-> <<>>]
    /\ (pc = "done" /\ ret.state = "ok") =>
         \A k \in 1..Len(lookups) : ~lookups[k].info.err

\* the lookup of the second log fails after the first log has been translated
\* into token operations
C11_Witness ==
  /\ pc = "done" /\ ret = [state |-> "err", ops |-> <<>>]
  /\ j = 2 /\ Len(lookups) = 2 /\ lookups[2].info.err
  /\ Len(ops) > 2 /\ Last(ops).type \in {OpErc20Transfer, OpErc721TransferReceive}

\* the symbol is the sentinel of an unknown token of the log's kind
IsUnknownSymbol(l, symbol) ==
  IF Len(l.Topics) = 4 THEN symbol = UnknownERC721Symbol
  ELSE symbol = UnknownERC20Symbol

\* one iteration of the loop over the logs whose lookup, if made, succeeds
IsLogStep ==
  /\ pc = "logs" /\ j <= Len(args.logs)
  /\ j' = j + 1

\* C12: a log adds token operations exactly when it carries the transfer
\* signature, has 3 or 4 topics, comes from an allowed address (or analytics
\* mode is on) and its symbol is known (or unknown tokens are included); any
\* other log adds no operation, takes no index and raises no error
C12_OnlyQualifyingLogsContribute ==
  [][IsLogStep =>
       LET l == args.logs[j]
       IN IF ReachesLookup(l)
          THEN /\ Len(lookups') = Len(lookups) + 1
               /\ IF IsUnknownSymbol(l, Last(lookups').info.symbol)
                     /\ ~args.config.includeUnknownTokens
                  THEN ops' = ops
                  ELSE /\ Len(ops') > Len(ops)
                       /\ SubSeq(ops', 1, Len(ops)) = ops
                       /\ \A k \in (Len(ops) + 1)..Len(ops') : ops'[k].index = k - 1
               /\ pc' = "logs"
          ELSE /\ ops' = ops
               /\ lookups' = lookups
               /\ pc' = "logs"
               /\ ret' = ret]_vars

\* a log of an allow-listed contract, listed in another letter case, is
\* translated in standard mode
C12_Witness ==
  /\ pc = "logs" /\ j = 2
  /\ ~args.config.isAnalyticsMode
  /\ args.config.standardModeWhiteList = <<AddrString(1, "lower")>>
  /\ args.logs[1].Address = 1
  /\ Len(lookups) = 1
  /\ Len(ops) > 2 + Len(tops)

\* a log with the transfer signature and five topics is passed over
C12_SkipWitness ==
  /\ pc = "logs" /\ j = 2
  /\ IsTransferLog(args.logs[1]) /\ Len(args.logs[1].Topics) = 5
  /\ lookups = <<>> /\ Len(ops) = 2 + Len(tops)

\* the operations are led by the fee debit of the sender at index 0 and the
\* fee credit of the fee recipient at index 1, related to the debit
LedByFeePair(o) ==
  /\ Len(o) >= 2
  /\ o[1].index = 0 /\ o[1].type = OpFee /\ o[1].status = StatusSuccess
  /\ o[1].account = args.sender /\ o[1].related = <<>>
  /\ o[1].amount = <<[value |-> -(args.gasUsed * args.gasPrice),
                      currency |-> AvaxCurrency]>>
  /\ o[2].index = 1 /\ o[2].type = OpFee /\ o[2].status = StatusSuccess
  /\ o[2].account = args.feeReceiver /\ o[2].related = <<0>>
  /\ o[2].amount = <<[value |-> args.gasUsed * args.gasPrice,
                      currency |-> AvaxCurrency]>>
  /\ (args.gasUsed = 21000 /\ args.gasPrice = 25) =>
       o[1].amount[1].value = -525000 /\ o[2].amount[1].value = 525000

\* C13: the operations Transaction returns begin with the two fee operations,
\* at indices 0 and 1 and with success status: the debit of gasUsed * gasPrice
\* from the sender, related to nothing, and the credit of the same amount to
\* the fee recipient of the block, related to index 0
C13_FeeOpsFirst ==
  /\ pc \in {"trace", "finalize", "logs"} => LedByFeePair(ops)
  /\ (pc = "done" /\ ret.state = "ok") => LedByFeePair(ret.ops)

\* a transaction with trace operations and a fee of 40000 * 50000 is returned
C13_Witness ==
  /\ pc = "done" /\ ret.state = "ok"
  /\ args.gasUsed = 40000 /\ args.gasPrice = 50000
  /\ Len(ret.ops) > 2
  /\ ret.ops[1].amount[1].value = -2000000000

\* C14: for an atomic transaction that is neither an import nor an export
\* crossChainTransaction returns an error with no operations and no
\* metadata, and CrossChainTransactions returns the error and no list, also
\* when it had built the records of earlier atomic transactions of the block
C14_UnsupportedAtomicTxAborts ==
  (call.made /\ call.tx.kind \notin {"import", "export"}) =>
    /\ call.result = [ops |-> <<>>, hasExported |-> FALSE, exportedOuts |-> <<>>,
                      txFee |-> <<>>, err |-> TRUE]
    /\ xpc # "direct" =>
         xpc = "done" /\ xret = [state |-> "err", transactions |-> <<>>]

\* the second atomic transaction of a block is of another type, after the
\* record of the first one has been built
C14_Witness ==
  /\ xpc = "done" /\ call.made /\ call.tx = OtherTx
  /\ x = 2 /\ Len(transactions) = 1
  /\ xret = [state |-> "err", transactions |-> <<>>]

\* C15 as stated: for an export to a chain with an alias that declares its
\* exported outputs, the exported-output list of the metadata holds one
\* operation per exported output, in order, with the coin-created UTXO id of
\* (transaction id, output index) and the amount of the output, whatever the
\* number of native-asset inputs
C15_OneOperationPerExportedOutput ==
  (/\ call.made /\ ~call.result.err
   /\ call.tx.kind = "export"
   /\ ~call.tx.ExportedOutputs.isNil
   /\ call.tx.DestinationChain \in chainIDToAliasMapping) =>
    LET outs == call.tx.ExportedOutputs.outs
        e == call.result.exportedOuts
    IN /\ Len(e) = Len(outs)
       /\ \A k \in 1..Len(e) :
            /\ e[k].coinChange = <<[identifier |-> <<call.tx.ID, k - 1>>,
                                    action |-> CoinCreated]>>
            /\ e[k].amount.value = outs[k].Amount
       /\ \A k, m \in 1..Len(e) :
            e[k].coinChange = e[m].coinChange => k = m

\* the number of the elements of s whose asset is the native one
RECURSIVE NativeCount(_)
NativeCount(s) ==
  IF s = <<>> THEN 0
  ELSE (IF s[1].AssetID = "AVAX" THEN 1 ELSE 0) + NativeCount(Tail(s))

\* C16: with start index s the native-asset operations of an atomic
\* transaction take the indices s, s+1, ... in the order they are emitted,
\* entries of another asset take none, and the exported-output operations
\* take the indices right after the last native operation; and
\* CrossChainTransactions starts every atomic transaction at index 0
C16_AtomicIndicesContiguous ==
  /\ (call.made /\ ~call.result.err) =>
       LET o == call.result.ops
           e == call.result.exportedOuts
       IN /\ Len(o) = IF call.tx.kind = "import" THEN NativeCount(call.tx.Outs)
                      ELSE NativeCount(call.tx.Ins)
          /\ \A k \in 1..Len(o) : o[k].index = call.rawIdx + k - 1
          /\ \A k \in 1..Len(e) : e[k].index = call.rawIdx + Len(o) + k - 1
  /\ (call.made /\ xpc # "direct") => call.rawIdx = 0
  /\ \A t \in 1..Len(transactions) :
       \A k \in 1..Len(transactions[t].operations) :
          transactions[t].operations[k].index = k - 1

\* an export called with start index 3: one native input after an input of
\* another asset, and two exported outputs, at the indices 4 and 5
C16_Witness ==
  /\ xpc = "direct" /\ call.made /\ ~call.result.err
  /\ call.rawIdx = 3 /\ call.tx.kind = "export"
  /\ Len(call.tx.Ins) = 2 /\ call.tx.Ins[1].AssetID = "OTHER"
  /\ Len(call.result.ops) = 1 /\ call.result.ops[1].index = 3
  /\ Len(call.result.exportedOuts) = 2
  /\ call.result.exportedOuts[2].index = 5

\* the sum of the amounts of the elements of s, of any asset
RECURSIVE AmountSum(_)
AmountSum(s) == IF s = <<>> THEN 0 ELSE s[1].Amount + AmountSum(Tail(s))

\* C20 as stated: the input total of an import, which is the fee plus the
\* native-asset outputs, is the exact sum of the amounts of the imported
\* inputs, for every 64-bit unsigned amount, those with the top bit set
\* included
C20_ImportInputTotalExact ==
  (call.made /\ ~call.result.err /\ call.tx.kind = "import") =>
    call.result.txFee[1].value + NativeSum(call.tx.Outs) =
      AmountSum(call.tx.ImportedInputs)

\* account a is the to-address of a create-kind call of trace t and does not
\* self-destruct after it
CreatedAndNotDestroyedSince(t, a) ==
  \E k \in 1..Len(t) :
     /\ CreateType(t[k].Type) /\ t[k].To = a
     /\ \A m \in (k + 1)..Len(t) : ~(t[m].Type = OpSelfDestruct /\ t[m].From = a)

\* C17: a create-kind call removes the ledger entry of its to-address before
\* its credit is accounted, and as long as the account does not self-destruct
\* again it has no entry, whatever it receives or sends; no
\* account-destruction operation is emitted for it
C17_CreateResurrects ==
  pc \in {"trace", "finalize", "logs", "done"} =>
    \A a \in {AcctA, AcctB} :
       CreatedAndNotDestroyedSince(Folded, a) =>
         /\ a \notin DOMAIN destroyedAccounts
         /\ \A k \in 1..Len(tops) :
              ~(tops[k].type = OpDestruct /\ tops[k].account = a)

\* B self-destructs, is created again with a credit of 100 and receives 100
\* more: traceOps returns without an account-destruction operation
C17_Witness ==
  /\ pc = "logs"
  /\ args.flattenedTrace =
       <<FlatCall(OpSelfDestruct, AcctB, AcctA, 40, FALSE),
         FlatCall(OpCreate, AcctA, AcctB, 100, FALSE),
         FlatCall(OpCall, AcctA, AcctB, 100, FALSE)>>
  /\ AcctB \notin DOMAIN destroyedAccounts
  /\ Len(tops) = 6
  /\ \A k \in 1..Len(tops) : tops[k].type # OpDestruct

\* C19 as stated: a reverted call of any kind leaves the destroyed-accounts
\* ledger as it was, keys and values
C19_RevertedCallLeavesLedger ==
  [][(IsTraceStep /\ ThisCall.Revert) => destroyedAccounts' = destroyedAccounts]_vars

\* C18 as stated: two runs of traceOps on the same trace and start index
\* return the same operations, also when two or more destroyed accounts end
\* with a positive ledger value
C18_TraceOpsDeterministic ==
  (first.made /\ pc = "logs") => tops = first.ops

====
